---- MODULE Spec2Model ----
(***************************************************************************)
(* Model of the resilient LLM-invocation layer of the cold email           *)
(* generator (src/generate_email.py): the retry loop of _make_api_request, *)
(* the process-wide circuit breaker (_failure_timestamps,                  *)
(* _circuit_open_until) and the fallback substitution of                   *)
(* _invoke_with_fallback.                                                  *)
(*                                                                         *)
(* Time is the value of time.time() in whole seconds, counted from the     *)
(* start of the process.  It advances while a request is in flight, while  *)
(* a call sleeps between retries and while no call is running; the         *)
(* bookkeeping statements between them take no time.                       *)
(***************************************************************************)
EXTENDS Integers, Sequences, FiniteSets, TLC

\* ---------------------------------------------------------------- constants
MAX_RETRIES == 3
RETRY_DELAY == 5
FAILURE_THRESHOLD == 3
FAILURE_WINDOW_SECONDS == 60
CIRCUIT_BREAKER_COOLDOWN == 300

MISTRAL_MODEL == "mistral-small-latest"
FALLBACK_MODEL == "mistral-tiny-latest"

\* ------------------------------------------------------------------- bounds
NumSessions == 2
MaxTime == 330

Sessions == 1..NumSessions
\* models a payload may name: the configured primary, or the fallback itself
Models == {MISTRAL_MODEL, FALLBACK_MODEL}
\* status codes the endpoint answers with
Statuses == {200, 400, 429}
\* what requests.post does: it returns a response or raises (timeout,
\* connection error)
Outcomes == {[kind |-> "response", status |-> c] : c \in Statuses}
              \cup {[kind |-> "exception", status |-> 0]}
\* seconds one request may take (the per-request timeout is 30 s)
ReqDurations == {0, 30}
\* seconds that may pass between two logical calls
IdleDurations == {30, 300}

VARIABLES
  now,                  \* time.time()
  _failure_timestamps,  \* the shared failure window (deque, oldest first)
  _circuit_open_until,  \* the shared open-until timestamp
  pc,                   \* position of each session's logical call
  model,                \* payload["model"] of the call
  stage,                \* "primary" or "fallback" attempt sequence
  attempt,              \* loop variable of _make_api_request
  exc,                  \* the exception being handled / raised
  result,               \* what the finished call returned or raised
  last,                 \* history: outcome of the call's last request, per
                        \* model
  reqs,                 \* history: requests issued by the call, per model
  slept,                \* history: seconds slept by the call
  recorded,             \* history: failures the call recorded
  fbSeqs,               \* history: fallback attempt sequences it started
  primaryExc,           \* history: the exception of its primary sequence
  openAtStart,          \* history: the breaker was open when the call began
  failLog               \* history: times of the latest failures recorded
                        \* since the last recorded success or the last
                        \* opening (the last FAILURE_THRESHOLD - 1 of them)

\* the response parser (src/email_utils.py), exercised on its own
VARIABLES
  ppc,                  \* "start", "formatted" (a text is ready), "parsed"
  subject_in,           \* round trip: the subject S
  body_in,              \* round trip: the body B
  model_output,         \* the argument of parse_subject_and_body
  parsed                \* what parse_subject_and_body returned or raised

parser == <<ppc, subject_in, body_in, model_output, parsed>>

\* the sanitizing of an optional field and the user prompt built from it
\* (src/generate_email.py), exercised on their own
VARIABLES
  spc,                  \* "start", "sanitized", "built"
  field,                \* which optional field is given
  value,                \* its raw value: None or a string
  sanitized,            \* what _sanitize_optional_field returned
  prompt                \* the lines of the user prompt

sanitizer == <<spc, field, value, sanitized, prompt>>

\* generate_email around the invoker (src/generate_email.py)
VARIABLES
  MISTRAL_API_KEY,      \* the configured credential: None or a string
  gpc,                  \* position of each session's generate_email
  sender_name,          \* its sender_name argument: None or a string
  built,                \* history: the two messages have been built
  resp_body,            \* the body of the response the invoker returned
  gresult               \* what generate_email returned or raised

generator == <<MISTRAL_API_KEY, gpc, sender_name, built, resp_body, gresult>>

\* the local variable now of each session's _record_failure, when its
\* statements are taken one by one
VARIABLES rfNow

\* the page of the email generator (src/app.py, _render_email_generator)
VARIABLES
  form,                 \* the values of the form's widgets at the last run
  generate_clicked,     \* the last run was a click on Generate
  returned,             \* what generate_email gives once it is entered
  session_state,        \* generated_subject and generated_body
  shown                 \* the message the last run showed

ui == <<form, generate_clicked, returned, session_state, shown>>

\* what the invoker's actions leave alone
outside == <<parser, sanitizer, generator, rfNow, ui>>

vars == <<now, _failure_timestamps, _circuit_open_until, pc, model, stage,
          attempt, exc, result, last, reqs, slept, recorded, fbSeqs,
          primaryExc, openAtStart, failLog, outside>>

breaker == <<_failure_timestamps, _circuit_open_until>>
locals == <<pc, model, stage, attempt, exc, result, last, reqs, slept,
            recorded, fbSeqs, primaryExc, openAtStart>>

NoReqs == [m \in Models |-> 0]
NoOutcome == [kind |-> "none", status |-> 0]
NoOutcomes == [m \in Models |-> NoOutcome]

\* an exception: what it says and the attempt sequence (or circuit check)
\* that raised it
NoExc == [kind |-> "none", origin |-> "none"]
Exc(k, from) == [kind |-> k, origin |-> from]
Ok == [kind |-> "ok", origin |-> "none"]

\* the last n entries of a log
KeepLast(q, n) ==
  IF Len(q) <= n THEN q ELSE SubSeq(q, Len(q) - n + 1, Len(q))

\* --------------------------------------------------------- circuit breaker
\* variants: a call at the very end of the cooldown is still rejected; the
\* comparison turned round; a check that never trips
CircuitOpen_inclusive(t, until) == t <= until
CircuitOpen_flipped(t, until) == until < t
CircuitOpen_never(t, until) == FALSE

\* _ensure_circuit_allows_call raises iff now < _circuit_open_until
CircuitOpen(t, until) == t < until

\* variant: an entry exactly FAILURE_WINDOW_SECONDS old is dropped too
RECURSIVE Prune_inclusive(_, _)
Prune_inclusive(w, t) ==
  IF w # << >> /\ t - Head(w) >= FAILURE_WINDOW_SECONDS
  THEN Prune_inclusive(Tail(w), t)
  ELSE w

\* the while loop of _record_failure: drop the oldest entries that are more
\* than FAILURE_WINDOW_SECONDS older than t
RECURSIVE Prune(_, _)
Prune(w, t) ==
  IF w # << >> /\ t - Head(w) > FAILURE_WINDOW_SECONDS
  THEN Prune(Tail(w), t)
  ELSE w

\* variant: opens one failure late
ThresholdReached_late(w) == Len(w) > FAILURE_THRESHOLD

\* the threshold test of _record_failure
ThresholdReached(w) == Len(w) >= FAILURE_THRESHOLD

\* variant: the breaker is opened but the window is left as it is
RecordFailure_noClear(w, until, t) ==
  LET w1 == Prune(Append(w, t), t)
  IN  IF ThresholdReached(w1)
      THEN << w1, t + CIRCUIT_BREAKER_COOLDOWN >>
      ELSE << w1, until >>

\* _record_failure at time t: the new <<window, open-until>>
RecordFailure(w, until, t) ==
  LET w1 == Prune(Append(w, t), t)
  IN  IF ThresholdReached(w1)
      THEN << << >>, t + CIRCUIT_BREAKER_COOLDOWN >>
      ELSE << w1, until >>

\* variant: a success leaves the window as it is
RecordSuccess_keep(w) == w

\* variant: a success drops only the oldest failure
RecordSuccess_oldest(w) == IF w # << >> THEN Tail(w) ELSE w

\* _record_success: the new window
RecordSuccess(w) == IF w # << >> THEN << >> ELSE w

\* ------------------------------------------------------------- retry loop
\* variants: one retry too many; a retry on every error status
RetryAfter_extra(status, a) == status = 429 /\ a < MAX_RETRIES
RetryAfter_anyError(status, a) == status >= 400 /\ a < MAX_RETRIES - 1

\* a 429 with attempts left: sleep and continue
RetryAfter(status, a) == status = 429 /\ a < MAX_RETRIES - 1

\* a 429 on the last attempt
RateLimitExhausted(status, a) == status = 429 /\ ~(a < MAX_RETRIES - 1)

\* variant: the boundary status 400 is let through
IsUpstreamError_above(status) == status # 429 /\ status > 400

\* any other error status
IsUpstreamError(status) == status # 429 /\ status >= 400

\* variant: the fallback's loop goes on from the primary's attempt number
FreshAttempt_carried(a) == a

\* for attempt in range(MAX_RETRIES): each call of _make_api_request
\* starts its own loop, whatever attempt number a the call before it reached
FreshAttempt(a) == 0

\* the model the current attempt sequence is sent to
Target(s) == IF stage[s] = "primary" THEN model[s] ELSE FALLBACK_MODEL

\* variants: the test inverted; the fallback tried for every payload
NeedsFallback_inverted(m) == m = FALLBACK_MODEL
NeedsFallback_always(m) == TRUE

\* the fallback is tried only for a payload that does not name it already
NeedsFallback(m) == m # FALLBACK_MODEL

AllIdle == \A s \in Sessions : pc[s] = "idle"

\* ----------------------------------------------------------- the parser
\* Strings are sequences of one-character strings.
MaxRest == 4
MaxSubj == 2
MaxBody == 4

Whitespace == {" ", "\n"}
Str_Subject_colon == <<"S", "u", "b", "j", "e", "c", "t", ":">>
Str_subject_colon == <<"s", "u", "b", "j", "e", "c", "t", ":">>
Str_SUBJECT_colon == <<"S", "U", "B", "J", "E", "C", "T", ":">>
Str_Hello_World ==
  <<"H", "e", "l", "l", "o", "\n", "W", "o", "r", "l", "d">>

\* all strings over the characters cs of length at most n
StringsUpTo(cs, n) == UNION {[1..k -> cs] : k \in 0..n}

\* texts handed to the parser: a beginning followed by a few characters
Prefixes == {<< >>, Str_Subject_colon, Str_subject_colon, Str_SUBJECT_colon,
             <<" ">> \o Str_Subject_colon,
             <<"S", "u", "b", "j", "e", "c", "t">>,
             <<"a", "\n">> \o Str_Subject_colon}
Texts == {p \o r : p \in Prefixes, r \in StringsUpTo({"a", " ", "\n", ":"},
                                                     MaxRest)}
           \cup {Str_Hello_World}
\* subjects (no newline) and bodies of the round trip
Subjects == StringsUpTo({"a", " ", ":"}, MaxSubj)
Bodies == StringsUpTo({"a", " ", "\n"}, MaxBody)

\* str.lower() on one character
LowerChar(c) ==
  CASE c = "S" -> "s" [] c = "U" -> "u" [] c = "B" -> "b" [] c = "J" -> "j"
    [] c = "E" -> "e" [] c = "C" -> "c" [] c = "T" -> "t" [] c = "H" -> "h"
    [] c = "W" -> "w" [] OTHER -> c
Lower(q) == [i \in DOMAIN q |-> LowerChar(q[i])]

\* str.lstrip(cs), str.rstrip(cs), str.strip()
RECURSIVE LStripOf(_, _)
LStripOf(q, cs) ==
  IF q # << >> /\ Head(q) \in cs THEN LStripOf(Tail(q), cs) ELSE q
RECURSIVE RStripOf(_, _)
RStripOf(q, cs) ==
  IF q # << >> /\ q[Len(q)] \in cs
  THEN RStripOf(SubSeq(q, 1, Len(q) - 1), cs) ELSE q
Strip(q) == RStripOf(LStripOf(q, Whitespace), Whitespace)

\* str.splitlines(): the lines without their terminators; a final
\* terminator opens no further line
RECURSIVE SplitFrom(_, _, _)
SplitFrom(q, cur, acc) ==
  IF q = << >> THEN (IF cur = << >> THEN acc ELSE Append(acc, cur))
  ELSE IF Head(q) = "\n" THEN SplitFrom(Tail(q), << >>, Append(acc, cur))
  ELSE SplitFrom(Tail(q), Append(cur, Head(q)), acc)
SplitLines(q) == SplitFrom(q, << >>, << >>)

\* "\n".join(lines)
RECURSIVE JoinLines(_)
JoinLines(ls) ==
  IF ls = << >> THEN << >>
  ELSE IF Len(ls) = 1 THEN ls[1]
  ELSE ls[1] \o <<"\n">> \o JoinLines(Tail(ls))

\* variants: the prefix compared without lower(); without its colon
HasSubjectPrefix_caseSensitive(ln) ==
  /\ Len(ln) >= Len(Str_subject_colon)
  /\ SubSeq(ln, 1, Len(Str_subject_colon)) = Str_Subject_colon
HasSubjectPrefix_noColon(ln) ==
  /\ Len(ln) >= 7
  /\ SubSeq(Lower(ln), 1, 7) = SubSeq(Str_subject_colon, 1, 7)

\* ln.lower().startswith("subject:")
HasSubjectPrefix(ln) ==
  /\ Len(ln) >= Len(Str_subject_colon)
  /\ SubSeq(Lower(ln), 1, Len(Str_subject_colon)) = Str_subject_colon

\* ln.split(":", 1): one part if ln has no colon, else the text before the
\* first colon and the text after it
SplitColon(ln) ==
  IF \E i \in DOMAIN ln : ln[i] = ":"
  THEN LET k == CHOOSE i \in DOMAIN ln :
                  ln[i] = ":" /\ \A j \in 1..(i - 1) : ln[j] # ":"
       IN  <<SubSeq(ln, 1, k - 1), SubSeq(ln, k + 1, Len(ln))>>
  ELSE <<ln>>

\* the fallback loop: index of the first line with ln.strip() non-empty, 0
\* if there is none
RECURSIVE FirstNonBlank(_, _)
FirstNonBlank(ls, idx) ==
  IF idx > Len(ls) THEN 0
  ELSE IF Strip(ls[idx]) # << >> THEN idx
  ELSE FirstNonBlank(ls, idx + 1)

ParseResult(subject, body) ==
  [raised |-> "none", subject |-> subject, body |-> body]
ParseRaised(e) == [raised |-> e, subject |-> << >>, body |-> << >>]
NotParsed == ParseRaised("not called")

\* "\n".join(body_lines).lstrip("\n")
BodyOf(body_lines) == LStripOf(JoinLines(body_lines), {"\n"})

\* variant: the lines are not right-trimmed
TrimmedLines_asIs(text) == SplitLines(text)

\* [ln.rstrip() for ln in text.splitlines()]
TrimmedLines(text) ==
  LET ls == SplitLines(text)
  IN  [i \in DOMAIN ls |-> RStripOf(ls[i], Whitespace)]

\* parse_subject_and_body(model_output)
parse_subject_and_body(mo) ==
  LET text == Strip(mo)
  IN  IF text = << >> THEN ParseResult(<< >>, << >>)
      ELSE
        LET lines == TrimmedLines(text)
        IN  IF lines # << >> /\ HasSubjectPrefix(lines[1])
            THEN LET parts == SplitColon(lines[1])
                 IN  IF Len(parts) < 2 THEN ParseRaised("IndexError")
                     ELSE ParseResult(Strip(parts[2]), BodyOf(Tail(lines)))
            ELSE LET idx == FirstNonBlank(lines, 1)
                 IN  IF idx = 0 THEN ParseResult(<< >>, BodyOf(<< >>))
                     ELSE ParseResult(Strip(lines[idx]),
                                      BodyOf(SubSeq(lines, idx + 1,
                                                    Len(lines))))

\* the output format the model is asked for: "Subject: S", a blank line, B
FormatEmail(S, B) ==
  Str_Subject_colon \o <<" ">> \o S \o <<"\n", "\n">> \o B

\* ------------------------------------------- optional fields and prompt
MAX_FIELD_LEN == 200
\* lengths of the inputs' runs of characters
RunLengths == {0, 1, 199, 200, 250}
MaxPad == 1

\* an optional string: None, or Some(string)
None == << >>
Some(q) == <<q>>

Fill(c, n) == [i \in 1..n |-> c]
Fields == {"position", "how_found", "one_liner", "company_note"}
\* raw values: padding, a run of "a", possibly a space, a run of "b", padding
FieldValues ==
  {None} \cup
  {Some(Fill(" ", l) \o Fill("a", n) \o mid \o Fill("b", k) \o Fill(" ", r)) :
     l \in 0..MaxPad, r \in 0..MaxPad, n \in RunLengths,
     mid \in {<< >>, <<" ">>}, k \in {0, 1, 50}}

\* q[:n]
Truncate(q, n) == IF Len(q) <= n THEN q ELSE SubSeq(q, 1, n)

\* variant: the value is cut first and stripped afterwards
StripAndCut_cutFirst(q) == Strip(Truncate(q, MAX_FIELD_LEN))

\* value.strip()[:200]
StripAndCut(q) == Truncate(Strip(q), MAX_FIELD_LEN)

\* variant: an empty result is kept as an empty string
OrNone_keepEmpty(q) == Some(q)

\* sanitized or None
OrNone(q) == IF q = << >> THEN None ELSE Some(q)

\* _sanitize_optional_field(value)
_sanitize_optional_field(v) ==
  IF v = None \/ v[1] = << >> THEN None
  ELSE OrNone(StripAndCut(v[1]))

\* a line of the prompt: fixed words followed by the text of a field
Line(label, text) == [label |-> label, text |-> text]
Blank == Line("", << >>)
\* Python truth of an optional string
Truthy(v) == v # None /\ v[1] # << >>

\* _format_optional_details: the lines of the block, none if no field is
\* given
_format_optional_details(how_found, one_liner, company_note) ==
  LET details ==
        (IF Truthy(company_note)
         THEN <<Line("- Company insight: ", company_note[1])>> ELSE << >>)
        \o (IF Truthy(one_liner)
            THEN <<Line("- Highlight: ", one_liner[1])>> ELSE << >>)
        \o (IF Truthy(how_found)
            THEN <<Line("- How found: ", how_found[1])>> ELSE << >>)
  IN  IF details = << >> THEN << >>
      ELSE <<Line("Extra details:", << >>)>> \o details

\* the required fields, the same in every prompt of the model
RequiredText == <<"a">>
PromptHead ==
  << Line("Write a short, polite cold email with the following details:",
          << >>),
     Blank, Line("Sender name:", << >>), Line("", RequiredText),
     Blank, Line("Sender email:", << >>), Line("", RequiredText),
     Blank, Line("Recipient email:", << >>), Line("", RequiredText),
     Blank, Line("Company:", << >>), Line("", RequiredText),
     Blank, Line("Role:", << >>), Line("", RequiredText) >>
PromptTail ==
  << Blank, Line("Email structure:", << >>),
     Line("1. One-sentence opening with purpose", << >>),
     Line("2. One short paragraph with personalization", << >>),
     Line("3. One short paragraph with the sender's relevant strength",
          << >>),
     Line("4. One-sentence CTA", << >>),
     Line("5. Signature", << >>),
     Blank, Line("Each section must be separated by a blank line.", << >>),
     Blank, Line("Personalization rules:", << >>),
     Line("Only include optional fields if they fit naturally", << >>),
     Line("Do not force details into the first sentence", << >>),
     Line("Company insight should be 1 sentence max", << >>),
     Line("One-liner (strength) must be integrated into the body", << >>),
     Line("How found must appear late in the email", << >>),
     Blank,
     Line("Make sure the email feels tailored to this scenario", << >>) >>

\* _user_prompt: its lines
_user_prompt(position, how_found, one_liner, company_note) ==
  LET optional_details ==
        _format_optional_details(how_found, one_liner, company_note)
  IN  PromptHead
      \o (IF Truthy(position)
          THEN <<Blank, Line("Position:", << >>), Line("", position[1])>>
          ELSE << >>)
      \o (IF optional_details # << >>
          THEN <<Blank>> \o optional_details ELSE << >>)
      \o PromptTail

\* the value of field f when only field g is given, as v
Given(f, g, v) == IF f = g THEN v ELSE None

\* ---------------------------------------------------------- generate_email
\* JSON values
JNull == [t |-> "null"]
JNum == [t |-> "num"]
JStr(q) == [t |-> "str", v |-> q]
JList(q) == [t |-> "list", v |-> q]
JDict(f) == [t |-> "dict", v |-> f]
EmptyDict == JDict(<< >>)

\* a value, or the exception an expression raised
Val(x) == [err |-> "none", v |-> x]
Raise(e) == [err |-> e, v |-> JNull]

\* x[key] for a string key
GetItem(x, key) ==
  IF x.t = "dict"
  THEN IF key \in DOMAIN x.v THEN Val(x.v[key]) ELSE Raise("KeyError")
  ELSE Raise("TypeError")

\* x[0]
GetFirst(x) ==
  IF x.t = "list"
  THEN IF x.v # << >> THEN Val(x.v[1]) ELSE Raise("IndexError")
  ELSE IF x.t = "str"
  THEN IF x.v # << >> THEN Val(JStr(<<x.v[1]>>)) ELSE Raise("IndexError")
  ELSE IF x.t = "dict" THEN Raise("KeyError")
  ELSE Raise("TypeError")

\* x.strip()
StripOf(x) ==
  IF x.t = "str" THEN Val(JStr(Strip(x.v))) ELSE Raise("AttributeError")

\* data["choices"][0]["message"]["content"].strip()
ContentOf(data) ==
  LET a == GetItem(data, "choices")
  IN  IF a.err # "none" THEN a ELSE
  LET b == GetFirst(a.v)
  IN  IF b.err # "none" THEN b ELSE
  LET c == GetItem(b.v, "message")
  IN  IF c.err # "none" THEN c ELSE
  LET d == GetItem(c.v, "content")
  IN  IF d.err # "none" THEN d ELSE StripOf(d.v)

\* a response body: text that is JSON (and its value) or is not
JsonBody(x) == [json |-> TRUE, data |-> x]
NotJsonBody == [json |-> FALSE, data |-> JNull]
Completion(content) ==
  JDict([choices |-> JList(<<JDict([message |->
                                     JDict([content |-> content])])>>)])
\* the bodies a success response may carry
ResponseBodies ==
  { NotJsonBody,
    JsonBody(JNull),
    JsonBody(JList(<< >>)),
    JsonBody(EmptyDict),
    JsonBody(JDict([choices |-> JList(<< >>)])),
    JsonBody(JDict([choices |-> JList(<<EmptyDict>>)])),
    JsonBody(JDict([choices |-> JList(<<JDict([message |-> EmptyDict])>>)])),
    JsonBody(Completion(JNull)),
    JsonBody(Completion(JNum)),
    JsonBody(Completion(JStr(<< >>))),
    JsonBody(Completion(JStr(FormatEmail(<<"a">>, <<"a">>) \o <<"\n">>))) }

\* the arguments and the credential: None, "" or a text
SenderNames == {None, Some(<< >>), Some(<<"a">>)}
ApiKeys == {None, Some(<< >>), Some(<<"k">>)}

\* what generate_email returns or raises
NoResult == [kind |-> "none", payload |-> JNull]
GenRaised(k, payload) == [kind |-> k, payload |-> payload]
GenReturned(p) ==
  [kind |-> "ok", payload |-> JDict([subject |-> JStr(p.subject),
                                     body |-> JStr(p.body)])]

\* lines 353-361: response.json(), the guarded extraction of the content,
\* the parsing
AfterResponse(body) ==
  IF ~body.json THEN GenRaised("JSONDecodeError", JNull)
  ELSE LET c == ContentOf(body.data)
       IN  IF c.err # "none" THEN GenRaised("UpstreamError", body.data)
           ELSE GenReturned(parse_subject_and_body(c.v.v))

\* variant: the sender name is validated before the credential
Precheck_nameFirst(key, name) ==
  IF ~Truthy(name) THEN "InvalidInput"
  ELSE IF ~Truthy(key) THEN "ConfigurationError"
  ELSE "none"

\* variant: an empty sender name is let through
Precheck_noName(key, name) ==
  IF ~Truthy(key) THEN "ConfigurationError"
  ELSE IF name = None THEN "InvalidInput"
  ELSE "none"

\* lines 312-316: the exception the two checks raise, "none" if they pass
Precheck(key, name) ==
  IF ~Truthy(key) THEN "ConfigurationError"
  ELSE IF ~Truthy(name) THEN "InvalidInput"
  ELSE "none"

\* ------------------------------------------------------------- the page
Str_a_at_b_c == <<"a", "@", "b", ".", "c">>
\* the addresses validate_email accepts, among those the form is given
ValidAddresses == {Str_a_at_b_c}
EmailInputs == {<< >>, <<"x">>, Str_a_at_b_c}
NameInputs == {<< >>, <<" ">>, <<"a">>}
TextInputs == {<< >>, <<"c">>}
Forms ==
  [sender_email : EmailInputs, receiver_email : EmailInputs,
   sender_name : NameInputs, company_name : TextInputs,
   prospect_role : TextInputs]

\* is_valid_email (src/email_utils.py)
is_valid_email(email) ==
  /\ email # << >> /\ Strip(email) # << >>
  /\ email \in ValidAddresses

\* the checks of the click handler in their order (lines 282-302): the
\* message of the first that fails, "none" if all pass
FormError(f) ==
  IF ~is_valid_email(Strip(f.sender_email)) THEN "sender email"
  ELSE IF ~is_valid_email(Strip(f.receiver_email)) THEN "recipient email"
  ELSE IF f.sender_name = << >> THEN "name"
  ELSE IF f.company_name = << >> THEN "company"
  ELSE IF f.prospect_role = << >> THEN "role"
  ELSE "none"

\* the parameters of generate_email (src/generate_email.py, lines 290-300)
Parameters ==
  {"company", "role", "sender_email", "receiver_email", "position",
   "sender_name", "how_found", "one_liner", "company_note"}
\* the parameters without a default value
Required == {"company", "role", "sender_email", "receiver_email"}

\* variant: the call passes no tone
Keywords_noTone == Parameters

\* the keyword arguments of the call at lines 313-324
Keywords ==
  {"company", "role", "sender_email", "receiver_email", "position",
   "sender_name", "how_found", "one_liner", "company_note", "tone"}

\* Python binds keyword arguments kw to a function of parameters params
\* and required parameters req, or raises TypeError
Binds(kw, params, req) == kw \subseteq params /\ req \subseteq kw

\* what the call of lines 313-324 gives when generate_email, once
\* entered, gives r
CallGenerate(r) ==
  IF Binds(Keywords, Parameters, Required) THEN r
  ELSE GenRaised("TypeError", JNull)

\* the exceptions generate_email raises as RuntimeError
RuntimeErrors ==
  {"ConfigurationError", "RateLimited", "UpstreamError",
   "ServiceUnavailable"}
\* the other ones
OtherErrors ==
  {"InvalidInput", "JSONDecodeError", "Transport", "IndexError"}

\* what generate_email may give: a parsed email or an exception
GenResults ==
  {GenReturned(parse_subject_and_body(t)) :
     t \in {FormatEmail(<<"a">>, <<" ", "b">>), <<"h", "i">>}}
    \cup {GenRaised(k, JNull) : k \in RuntimeErrors \cup OtherErrors}

\* the branch of lines 325-344 taken for the outcome c of the call
Branch(c) ==
  IF c.kind = "ok" THEN "success"
  ELSE IF c.kind \in RuntimeErrors
  THEN IF c.kind = "RateLimited" THEN "overloaded" ELSE "failed"
  ELSE "unexpected"

NoEmail == [generated_subject |-> << >>, generated_body |-> << >>]
\* lines 325-326
Stored(c) ==
  [generated_subject |-> Strip(c.payload.v["subject"].v),
   generated_body |-> Strip(c.payload.v["body"].v)]

\* ------------------------------------------------------------------- Init
\* generate_email not called, a credential configured
InitGenerator ==
  /\ MISTRAL_API_KEY = Some(<<"k">>)
  /\ gpc = [s \in Sessions |-> "idle"]
  /\ sender_name = [s \in Sessions |-> None]
  /\ built = [s \in Sessions |-> FALSE]
  /\ resp_body = [s \in Sessions |-> NotJsonBody]
  /\ gresult = [s \in Sessions |-> NoResult]

InitRacing == rfNow = [s \in Sessions |-> 0]

\* the page before its first run
InitUi ==
  /\ form = [sender_email |-> << >>, receiver_email |-> << >>,
             sender_name |-> << >>, company_name |-> << >>,
             prospect_role |-> << >>]
  /\ generate_clicked = FALSE
  /\ returned = NoResult
  /\ session_state = NoEmail
  /\ shown = "none"

\* no optional field in work
InitSanitizer ==
  /\ spc = "start"
  /\ field = "position"
  /\ value = None
  /\ sanitized = None
  /\ prompt = << >>

\* the parser at rest
InitParser ==
  /\ ppc = "start"
  /\ subject_in = << >>
  /\ body_in = << >>
  /\ model_output = << >>
  /\ parsed = NotParsed

\* the breaker and the sessions when the process has started
InitInvoker ==
  /\ now = 0
  /\ _failure_timestamps = << >>
  /\ _circuit_open_until = 0
  /\ pc = [s \in Sessions |-> "idle"]
  /\ model = [s \in Sessions |-> MISTRAL_MODEL]
  /\ stage = [s \in Sessions |-> "primary"]
  /\ attempt = [s \in Sessions |-> 0]
  /\ exc = [s \in Sessions |-> NoExc]
  /\ result = [s \in Sessions |-> NoExc]
  /\ last = [s \in Sessions |-> NoOutcomes]
  /\ reqs = [s \in Sessions |-> NoReqs]
  /\ slept = [s \in Sessions |-> 0]
  /\ recorded = [s \in Sessions |-> 0]
  /\ fbSeqs = [s \in Sessions |-> 0]
  /\ primaryExc = [s \in Sessions |-> NoExc]
  /\ openAtStart = [s \in Sessions |-> FALSE]
  /\ failLog = << >>

Init ==
  /\ InitInvoker /\ InitParser /\ InitSanitizer /\ InitGenerator
  /\ InitRacing /\ InitUi

\* ---------------------------------------------------------------- actions
\* a session enters _invoke_with_fallback(headers, payload) with
\* payload["model"] = m
Invoke(s, m) ==
  /\ pc[s] = "idle"
  /\ pc' = [pc EXCEPT ![s] = "check"]
  /\ model' = [model EXCEPT ![s] = m]
  /\ stage' = [stage EXCEPT ![s] = "primary"]
  /\ attempt' = [attempt EXCEPT ![s] = 0]
  /\ exc' = [exc EXCEPT ![s] = NoExc]
  /\ result' = [result EXCEPT ![s] = NoExc]
  /\ last' = [last EXCEPT ![s] = NoOutcomes]
  /\ reqs' = [reqs EXCEPT ![s] = NoReqs]
  /\ slept' = [slept EXCEPT ![s] = 0]
  /\ recorded' = [recorded EXCEPT ![s] = 0]
  /\ fbSeqs' = [fbSeqs EXCEPT ![s] = 0]
  /\ primaryExc' = [primaryExc EXCEPT ![s] = NoExc]
  /\ openAtStart' = [openAtStart EXCEPT ![s] = now < _circuit_open_until]
  /\ UNCHANGED <<now, breaker, failLog>>
  /\ UNCHANGED outside

\* the calls of one process made one after the other
InvokeAlone(s, m) == AllIdle /\ Invoke(s, m)

\* variant: the circuit check at entry sits inside the try block
RejectedAtEntry_caught == "except"

\* where the exception of the circuit check at entry goes: line 99 is
\* outside the try block, the exception leaves the invoker
RejectedAtEntry == "done"

\* _ensure_circuit_allows_call() at entry (line 99)
CircuitCheck(s) ==
  /\ pc[s] = "check"
  /\ IF CircuitOpen(now, _circuit_open_until)
     THEN /\ pc' = [pc EXCEPT ![s] = RejectedAtEntry]
          /\ exc' = [exc EXCEPT ![s] = Exc("ServiceUnavailable", "circuit")]
          /\ result' = [result EXCEPT ![s] =
                           Exc("ServiceUnavailable", "circuit")]
     ELSE /\ pc' = [pc EXCEPT ![s] = "request"]
          /\ UNCHANGED <<exc, result>>
  /\ UNCHANGED <<now, breaker, model, stage, attempt, last, reqs, slept,
                 recorded, fbSeqs, primaryExc, openAtStart, failLog>>
  /\ UNCHANGED outside

\* variant: a transport failure is retried like a 429
AfterPost_retryTransport(o, a) ==
  IF o.kind = "exception"
  THEN IF a < MAX_RETRIES - 1 THEN "sleep" ELSE "Transport"
  ELSE IF RetryAfter(o.status, a) THEN "sleep"
  ELSE IF RateLimitExhausted(o.status, a) THEN "RateLimited"
  ELSE IF IsUpstreamError(o.status) THEN "UpstreamError"
  ELSE "return"

\* what one iteration of the loop does with the outcome o of requests.post
\* on attempt a: "sleep" (and continue), "return", or the exception raised
AfterPost(o, a) ==
  IF o.kind = "exception" THEN "Transport"
  ELSE IF RetryAfter(o.status, a) THEN "sleep"
  ELSE IF RateLimitExhausted(o.status, a) THEN "RateLimited"
  ELSE IF IsUpstreamError(o.status) THEN "UpstreamError"
  ELSE "return"

\* one iteration of the loop of _make_api_request up to its sleep, raise or
\* return: requests.post takes d seconds and ends as o
Post(s, o, d) ==
  /\ pc[s] = "request"
  /\ now + d <= MaxTime
  /\ now' = now + d
  /\ reqs' = [reqs EXCEPT ![s][Target(s)] = @ + 1]
  /\ last' = [last EXCEPT ![s][Target(s)] = o]
  /\ LET r == AfterPost(o, attempt[s])
     IN  IF r = "sleep"
         THEN /\ pc' = [pc EXCEPT ![s] = "sleep"]
              /\ UNCHANGED <<exc, primaryExc>>
         ELSE IF r = "return"
         THEN /\ pc' = [pc EXCEPT ![s] = "success"]
              /\ UNCHANGED <<exc, primaryExc>>
         ELSE /\ pc' = [pc EXCEPT ![s] = "except"]
              /\ exc' = [exc EXCEPT ![s] = Exc(r, stage[s])]
              /\ primaryExc' = [primaryExc EXCEPT ![s] =
                                  IF stage[s] = "primary"
                                  THEN Exc(r, stage[s]) ELSE @]
  /\ UNCHANGED <<breaker, model, stage, attempt, result, slept, recorded,
                 fbSeqs, openAtStart, failLog>>
  /\ UNCHANGED outside

\* time.sleep(RETRY_DELAY); continue
Sleep(s) ==
  /\ pc[s] = "sleep"
  /\ now + RETRY_DELAY <= MaxTime
  /\ now' = now + RETRY_DELAY
  /\ slept' = [slept EXCEPT ![s] = @ + RETRY_DELAY]
  /\ attempt' = [attempt EXCEPT ![s] = @ + 1]
  /\ pc' = [pc EXCEPT ![s] = "request"]
  /\ UNCHANGED <<breaker, model, stage, exc, result, last, reqs, recorded,
                 fbSeqs, primaryExc, openAtStart, failLog>>
  /\ UNCHANGED outside

\* _record_success(); return response (lines 102-103 and 114-115)
Succeed(s) ==
  /\ pc[s] = "success"
  /\ _failure_timestamps' = RecordSuccess(_failure_timestamps)
  /\ failLog' = << >>
  /\ pc' = [pc EXCEPT ![s] = "done"]
  /\ result' = [result EXCEPT ![s] = Ok]
  /\ UNCHANGED <<now, _circuit_open_until, model, stage, attempt, exc, last,
                 reqs, slept, recorded, fbSeqs, primaryExc, openAtStart>>
  /\ UNCHANGED outside

\* variant: the primary's exception is raised whatever failed last
Reraised_primary(s) == primaryExc[s]

\* the bare raise of an except block (lines 119, 120) re-raises the
\* exception that block is handling
Reraised(s) == exc[s]

\* the except blocks: _record_failure(), then either the fallback is
\* prepared (lines 107-110) or the exception is re-raised (119, 120)
Fail(s) ==
  /\ pc[s] = "except"
  /\ LET r == RecordFailure(_failure_timestamps, _circuit_open_until, now)
     IN  /\ _failure_timestamps' = r[1]
         /\ _circuit_open_until' = r[2]
         /\ failLog' = IF r[2] # _circuit_open_until
                       THEN << >>
                       ELSE KeepLast(Append(failLog, now),
                                     FAILURE_THRESHOLD - 1)
  /\ recorded' = [recorded EXCEPT ![s] = @ + 1]
  /\ IF stage[s] = "primary" /\ NeedsFallback(model[s])
     THEN /\ pc' = [pc EXCEPT ![s] = "recheck"]
          /\ UNCHANGED result
     ELSE /\ pc' = [pc EXCEPT ![s] = "done"]
          /\ result' = [result EXCEPT ![s] = Reraised(s)]
  /\ UNCHANGED <<now, model, stage, attempt, exc, last, reqs, slept, fbSeqs,
                 primaryExc, openAtStart>>
  /\ UNCHANGED outside

\* _ensure_circuit_allows_call() before the fallback (line 111), then the
\* fallback's _make_api_request begins
Recheck(s) ==
  /\ pc[s] = "recheck"
  /\ IF CircuitOpen(now, _circuit_open_until)
     THEN /\ pc' = [pc EXCEPT ![s] = "done"]
          /\ exc' = [exc EXCEPT ![s] = Exc("ServiceUnavailable", "circuit")]
          /\ result' = [result EXCEPT ![s] =
                           Exc("ServiceUnavailable", "circuit")]
          /\ UNCHANGED <<stage, attempt, fbSeqs>>
     ELSE /\ pc' = [pc EXCEPT ![s] = "request"]
          /\ stage' = [stage EXCEPT ![s] = "fallback"]
          /\ attempt' = [attempt EXCEPT ![s] = FreshAttempt(@)]
          /\ fbSeqs' = [fbSeqs EXCEPT ![s] = @ + 1]
          /\ UNCHANGED <<exc, result>>
  /\ UNCHANGED <<now, breaker, model, last, reqs, slept, recorded,
                 primaryExc, openAtStart, failLog>>
  /\ UNCHANGED outside

\* the caller has taken the result; the session is ready for its next call
Return(s) ==
  /\ pc[s] = "done"
  /\ pc' = [pc EXCEPT ![s] = "idle"]
  /\ model' = [model EXCEPT ![s] = MISTRAL_MODEL]
  /\ stage' = [stage EXCEPT ![s] = "primary"]
  /\ attempt' = [attempt EXCEPT ![s] = 0]
  /\ exc' = [exc EXCEPT ![s] = NoExc]
  /\ result' = [result EXCEPT ![s] = NoExc]
  /\ last' = [last EXCEPT ![s] = NoOutcomes]
  /\ reqs' = [reqs EXCEPT ![s] = NoReqs]
  /\ slept' = [slept EXCEPT ![s] = 0]
  /\ recorded' = [recorded EXCEPT ![s] = 0]
  /\ fbSeqs' = [fbSeqs EXCEPT ![s] = 0]
  /\ primaryExc' = [primaryExc EXCEPT ![s] = NoExc]
  /\ openAtStart' = [openAtStart EXCEPT ![s] = FALSE]
  /\ UNCHANGED <<now, breaker, failLog>>
  /\ UNCHANGED outside

\* time passes while no call is running
Idle(d) ==
  /\ AllIdle
  /\ now + d <= MaxTime
  /\ now' = now + d
  /\ UNCHANGED <<breaker, locals, failLog>>
  /\ UNCHANGED outside

Next ==
  \/ \E s \in Sessions, m \in Models : InvokeAlone(s, m)
  \/ \E s \in Sessions : CircuitCheck(s)
  \/ \E s \in Sessions, o \in Outcomes, d \in ReqDurations : Post(s, o, d)
  \/ \E s \in Sessions : Sleep(s)
  \/ \E s \in Sessions : Succeed(s)
  \/ \E s \in Sessions : Fail(s)
  \/ \E s \in Sessions : Recheck(s)
  \/ \E s \in Sessions : Return(s)
  \/ \E d \in IdleDurations : Idle(d)

Spec == Init /\ [][Next]_vars

\* ------------------------------------------------- the parser on its own
invoker == <<now, breaker, locals, failLog>>

\* the model's text is given the requested format
Format ==
  /\ ppc = "start"
  /\ model_output' = FormatEmail(subject_in, body_in)
  /\ ppc' = "formatted"
  /\ UNCHANGED <<subject_in, body_in, parsed, invoker, sanitizer, generator, rfNow, ui>>

\* subject, body = parse_subject_and_body(content)
Parse ==
  /\ ppc = "formatted"
  /\ parsed' = parse_subject_and_body(model_output)
  /\ ppc' = "parsed"
  /\ UNCHANGED <<subject_in, body_in, model_output, invoker, sanitizer, generator, rfNow, ui>>

\* arbitrary texts are parsed
InitTexts ==
  /\ InitInvoker
  /\ InitSanitizer
  /\ InitGenerator
  /\ InitRacing
  /\ InitUi
  /\ ppc = "formatted"
  /\ subject_in = << >>
  /\ body_in = << >>
  /\ model_output \in Texts
  /\ parsed = NotParsed

NextParse == Parse

SpecParse == InitTexts /\ [][NextParse]_vars

\* a subject and a body are formatted, then parsed
InitRoundTrip ==
  /\ InitInvoker
  /\ InitSanitizer
  /\ InitGenerator
  /\ InitRacing
  /\ InitUi
  /\ ppc = "start"
  /\ subject_in \in Subjects
  /\ body_in \in Bodies
  /\ model_output = << >>
  /\ parsed = NotParsed

NextRoundTrip == Format \/ Parse

SpecRoundTrip == InitRoundTrip /\ [][NextRoundTrip]_vars

\* ------------------------------------ the optional fields on their own
\* lines 317-320 of generate_email, for the one field that is given
Sanitize ==
  /\ spc = "start"
  /\ sanitized' = _sanitize_optional_field(value)
  /\ spc' = "sanitized"
  /\ UNCHANGED <<field, value, prompt, invoker, parser, generator, rfNow, ui>>

\* the user message is built from the sanitized fields (lines 331-341)
BuildPrompt ==
  /\ spc = "sanitized"
  /\ prompt' = _user_prompt(Given("position", field, sanitized),
                            Given("how_found", field, sanitized),
                            Given("one_liner", field, sanitized),
                            Given("company_note", field, sanitized))
  /\ spc' = "built"
  /\ UNCHANGED <<field, value, sanitized, invoker, parser, generator, rfNow, ui>>

InitFields ==
  /\ InitInvoker
  /\ InitParser
  /\ InitGenerator
  /\ InitRacing
  /\ InitUi
  /\ spc = "start"
  /\ field \in Fields
  /\ value \in FieldValues
  /\ sanitized = None
  /\ prompt = << >>

NextFields == Sanitize \/ BuildPrompt

SpecFields == InitFields /\ [][NextFields]_vars

\* ------------------------------------- interleaved calls of the invoker
\* The sessions' calls run in threads of one process and the module takes
\* no lock: the statements of _record_failure and _record_success of one
\* call interleave with those of another.
RaceMaxTime == 90

\* what the fine-grained steps of one session leave alone
RaceFrame ==
  UNCHANGED <<model, stage, attempt, exc, last, reqs, slept, fbSeqs,
              primaryExc, openAtStart, failLog, parser, sanitizer,
              generator, ui>>

\* _record_failure has returned: the rest of the except block, as in Fail
FailureRecorded(s) ==
  /\ rfNow' = [rfNow EXCEPT ![s] = 0]
  /\ IF stage[s] = "primary" /\ NeedsFallback(model[s])
     THEN /\ pc' = [pc EXCEPT ![s] = "recheck"]
          /\ UNCHANGED result
     ELSE /\ pc' = [pc EXCEPT ![s] = "done"]
          /\ result' = [result EXCEPT ![s] = Reraised(s)]

\* _failure_timestamps[0] or popleft() on an empty deque: the IndexError
\* leaves _record_failure, the except block and the invoker
IndexErrorRaised(s) ==
  /\ rfNow' = [rfNow EXCEPT ![s] = 0]
  /\ pc' = [pc EXCEPT ![s] = "done"]
  /\ result' = [result EXCEPT ![s] = Exc("IndexError", stage[s])]

\* now = time.time() (line 46)
RfTime(s) ==
  /\ pc[s] = "except"
  /\ rfNow' = [rfNow EXCEPT ![s] = now]
  /\ recorded' = [recorded EXCEPT ![s] = @ + 1]
  /\ pc' = [pc EXCEPT ![s] = "rf_append"]
  /\ UNCHANGED <<now, breaker, result>>
  /\ RaceFrame

\* _failure_timestamps.append(now) (line 47)
RfAppend(s) ==
  /\ pc[s] = "rf_append"
  /\ _failure_timestamps' = Append(_failure_timestamps, rfNow[s])
  /\ pc' = [pc EXCEPT ![s] = "rf_while"]
  /\ UNCHANGED <<now, _circuit_open_until, result, recorded, rfNow>>
  /\ RaceFrame

\* while _failure_timestamps ...: the truth test of the deque (line 48)
RfWhile(s) ==
  /\ pc[s] = "rf_while"
  /\ pc' = [pc EXCEPT ![s] = IF _failure_timestamps # << >>
                             THEN "rf_head" ELSE "rf_len"]
  /\ UNCHANGED <<now, breaker, result, recorded, rfNow>>
  /\ RaceFrame

\* ... and now - _failure_timestamps[0] > FAILURE_WINDOW_SECONDS (line 48)
RfHead(s) ==
  /\ pc[s] = "rf_head"
  /\ IF _failure_timestamps = << >>
     THEN IndexErrorRaised(s)
     ELSE /\ pc' = [pc EXCEPT ![s] =
                      IF rfNow[s] - Head(_failure_timestamps)
                           > FAILURE_WINDOW_SECONDS
                      THEN "rf_pop" ELSE "rf_len"]
          /\ UNCHANGED <<result, rfNow>>
  /\ UNCHANGED <<now, breaker, recorded>>
  /\ RaceFrame

\* _failure_timestamps.popleft() (line 49)
RfPop(s) ==
  /\ pc[s] = "rf_pop"
  /\ IF _failure_timestamps = << >>
     THEN IndexErrorRaised(s) /\ UNCHANGED _failure_timestamps
     ELSE /\ _failure_timestamps' = Tail(_failure_timestamps)
          /\ pc' = [pc EXCEPT ![s] = "rf_while"]
          /\ UNCHANGED <<result, rfNow>>
  /\ UNCHANGED <<now, _circuit_open_until, recorded>>
  /\ RaceFrame

\* if len(_failure_timestamps) >= FAILURE_THRESHOLD (line 50)
RfLen(s) ==
  /\ pc[s] = "rf_len"
  /\ IF ThresholdReached(_failure_timestamps)
     THEN /\ pc' = [pc EXCEPT ![s] = "rf_open"]
          /\ UNCHANGED <<result, rfNow>>
     ELSE FailureRecorded(s)
  /\ UNCHANGED <<now, breaker, recorded>>
  /\ RaceFrame

\* _circuit_open_until = now + CIRCUIT_BREAKER_COOLDOWN (line 51)
RfOpen(s) ==
  /\ pc[s] = "rf_open"
  /\ _circuit_open_until' = rfNow[s] + CIRCUIT_BREAKER_COOLDOWN
  /\ pc' = [pc EXCEPT ![s] = "rf_clear"]
  /\ UNCHANGED <<now, _failure_timestamps, result, recorded, rfNow>>
  /\ RaceFrame

\* _failure_timestamps.clear() (line 52), the end of _record_failure
RfClear(s) ==
  /\ pc[s] = "rf_clear"
  /\ _failure_timestamps' = << >>
  /\ FailureRecorded(s)
  /\ UNCHANGED <<now, _circuit_open_until, recorded>>
  /\ RaceFrame

\* if _failure_timestamps: (line 63)
RsTest(s) ==
  /\ pc[s] = "success"
  /\ IF _failure_timestamps # << >>
     THEN /\ pc' = [pc EXCEPT ![s] = "rs_clear"]
          /\ UNCHANGED result
     ELSE /\ pc' = [pc EXCEPT ![s] = "done"]
          /\ result' = [result EXCEPT ![s] = Ok]
  /\ UNCHANGED <<now, breaker, recorded, rfNow>>
  /\ RaceFrame

\* _failure_timestamps.clear() (line 64); return response
RsClear(s) ==
  /\ pc[s] = "rs_clear"
  /\ _failure_timestamps' = << >>
  /\ pc' = [pc EXCEPT ![s] = "done"]
  /\ result' = [result EXCEPT ![s] = Ok]
  /\ UNCHANGED <<now, _circuit_open_until, recorded, rfNow>>
  /\ RaceFrame

\* the endpoint answers every request, with success or with an error that
\* is not retried
RaceOutcomes ==
  {o \in Outcomes : o.kind = "response" /\ o.status \in {200, 400}}

\* the invoker is called as generate_email calls it (line 352)
InvokeRace(s) == Invoke(s, MISTRAL_MODEL)

\* a request, within the horizon
PostRace(s, o, d) == Post(s, o, d) /\ now' <= RaceMaxTime

NextRace ==
  \/ \E s \in Sessions : InvokeRace(s)
  \/ \E s \in Sessions : CircuitCheck(s)
  \/ \E s \in Sessions, o \in RaceOutcomes, d \in ReqDurations :
        PostRace(s, o, d)
  \/ \E s \in Sessions : RfTime(s)
  \/ \E s \in Sessions : RfAppend(s)
  \/ \E s \in Sessions : RfWhile(s)
  \/ \E s \in Sessions : RfHead(s)
  \/ \E s \in Sessions : RfPop(s)
  \/ \E s \in Sessions : RfLen(s)
  \/ \E s \in Sessions : RfOpen(s)
  \/ \E s \in Sessions : RfClear(s)
  \/ \E s \in Sessions : RsTest(s)
  \/ \E s \in Sessions : RsClear(s)
  \/ \E s \in Sessions : Recheck(s)
  \/ \E s \in Sessions : Return(s)

SpecRace == Init /\ [][NextRace]_vars

\* ------------------------------------------- generate_email, whole calls
NoGenerate == \A s \in Sessions : gpc[s] = "idle"

\* generate_email(..., sender_name = name) up to the call of the invoker:
\* the two checks, then the sanitizing and the building of the messages
Generate(s, name) ==
  /\ AllIdle /\ NoGenerate
  /\ sender_name' = [sender_name EXCEPT ![s] = name]
  /\ LET e == Precheck(MISTRAL_API_KEY, name)
     IN  IF e # "none"
         THEN /\ gpc' = [gpc EXCEPT ![s] = "finished"]
              /\ gresult' = [gresult EXCEPT ![s] = GenRaised(e, JNull)]
              /\ UNCHANGED built
         ELSE /\ gpc' = [gpc EXCEPT ![s] = "call"]
              /\ built' = [built EXCEPT ![s] = TRUE]
              /\ UNCHANGED gresult
  /\ UNCHANGED <<MISTRAL_API_KEY, resp_body, invoker, parser, sanitizer,
                 rfNow, ui>>

\* response = _invoke_with_fallback(headers, payload), with the configured
\* model (line 352)
GenInvoke(s) == gpc[s] = "call" /\ Invoke(s, MISTRAL_MODEL)

\* the invoker has returned a response with body b, or raised: lines
\* 353-361, or the exception passes through
GenFinish(s, b) ==
  /\ gpc[s] = "call" /\ pc[s] = "done"
  /\ gpc' = [gpc EXCEPT ![s] = "finished"]
  /\ IF result[s] = Ok
     THEN /\ resp_body' = [resp_body EXCEPT ![s] = b]
          /\ gresult' = [gresult EXCEPT ![s] = AfterResponse(b)]
     ELSE /\ b = NotJsonBody
          /\ gresult' = [gresult EXCEPT ![s] =
                            GenRaised(result[s].kind, JNull)]
          /\ UNCHANGED resp_body
  /\ UNCHANGED <<MISTRAL_API_KEY, sender_name, built, invoker, parser,
                 sanitizer, rfNow, ui>>

\* the frame of the invoker is left
GenReturn(s) == gpc[s] = "finished" /\ Return(s)

\* the caller has taken the result or the exception
GenDone(s) ==
  /\ gpc[s] = "finished" /\ pc[s] = "idle"
  /\ gpc' = [gpc EXCEPT ![s] = "idle"]
  /\ sender_name' = [sender_name EXCEPT ![s] = None]
  /\ built' = [built EXCEPT ![s] = FALSE]
  /\ resp_body' = [resp_body EXCEPT ![s] = NotJsonBody]
  /\ gresult' = [gresult EXCEPT ![s] = NoResult]
  /\ UNCHANGED <<MISTRAL_API_KEY, invoker, parser, sanitizer, rfNow,
                 ui>>

\* time passes while no call is running
GenIdle(d) == NoGenerate /\ Idle(d)

\* the credential is whatever the environment holds
InitGenerate ==
  /\ InitInvoker
  /\ InitParser
  /\ InitSanitizer
  /\ InitRacing
  /\ InitUi
  /\ MISTRAL_API_KEY \in ApiKeys
  /\ gpc = [s \in Sessions |-> "idle"]
  /\ sender_name = [s \in Sessions |-> None]
  /\ built = [s \in Sessions |-> FALSE]
  /\ resp_body = [s \in Sessions |-> NotJsonBody]
  /\ gresult = [s \in Sessions |-> NoResult]

NextGenerate ==
  \/ \E s \in Sessions, name \in SenderNames : Generate(s, name)
  \/ \E s \in Sessions : GenInvoke(s)
  \/ \E s \in Sessions : CircuitCheck(s)
  \/ \E s \in Sessions, o \in Outcomes, d \in ReqDurations : Post(s, o, d)
  \/ \E s \in Sessions : Sleep(s)
  \/ \E s \in Sessions : Succeed(s)
  \/ \E s \in Sessions : Fail(s)
  \/ \E s \in Sessions : Recheck(s)
  \/ \E s \in Sessions, b \in ResponseBodies : GenFinish(s, b)
  \/ \E s \in Sessions : GenReturn(s)
  \/ \E s \in Sessions : GenDone(s)
  \/ \E d \in IdleDurations : GenIdle(d)

SpecGenerate == InitGenerate /\ [][NextGenerate]_vars

\* ------------------------------------------------------ the page's runs
\* a run of the page without a click on Generate: the widgets hold f
Rerun(f) ==
  /\ form' = f
  /\ generate_clicked' = FALSE
  /\ returned' = NoResult
  /\ shown' = "none"
  /\ UNCHANGED <<session_state, invoker, parser, sanitizer, generator,
                 rfNow>>

\* a click on Generate with the widgets holding f (lines 281-344):
\* generate_email, once entered, gives r
Click(f, r) ==
  /\ form' = f
  /\ generate_clicked' = TRUE
  /\ returned' = r
  /\ IF FormError(f) # "none"
     THEN /\ shown' = "stopped"
          /\ UNCHANGED session_state
     ELSE LET c == CallGenerate(r)
          IN  /\ shown' = Branch(c)
              /\ session_state' = IF c.kind = "ok" THEN Stored(c)
                                  ELSE session_state
  /\ UNCHANGED <<invoker, parser, sanitizer, generator, rfNow>>

NextUi ==
  \/ \E f \in Forms : Rerun(f)
  \/ \E f \in Forms, r \in GenResults : Click(f, r)

SpecUi == Init /\ [][NextUi]_vars

TypeOK ==
  /\ now \in 0..MaxTime
  /\ _circuit_open_until \in 0..(MaxTime + CIRCUIT_BREAKER_COOLDOWN)
  /\ pc \in [Sessions -> {"idle", "check", "request", "sleep", "success",
                          "except", "recheck", "done"}]
  /\ attempt \in [Sessions -> 0..(MAX_RETRIES - 1)]

\* ------------------------------------------------------------------ claims
TotalReqs(s) == reqs[s][MISTRAL_MODEL] + reqs[s][FALLBACK_MODEL]
ServiceUnavailable == Exc("ServiceUnavailable", "circuit")
\* the breaker was opened at the present moment
OpenedNow ==
  /\ _circuit_open_until = now + CIRCUIT_BREAKER_COOLDOWN
  /\ _failure_timestamps = << >>
\* session s takes the step that leaves position p
Leaves(s, p) == pc[s] = p /\ pc'[s] # p

\* C1: a call that starts while the breaker is open (now < open-until) fails
\* immediately with ServiceUnavailable, issues no HTTP request and records
\* nothing.
C1_OpenFailsFast ==
  \A s \in Sessions :
    openAtStart[s] =>
      /\ pc[s] \in {"check", "done"}
      /\ TotalReqs(s) = 0
      /\ recorded[s] = 0
      /\ slept[s] = 0
      /\ pc[s] = "done" => result[s] = ServiceUnavailable

C1_Witness ==
  \E s \in Sessions :
    openAtStart[s] /\ pc[s] = "done" /\ now < _circuit_open_until

\* C2: the breaker opens exactly on the recorded failure that makes
\* FAILURE_THRESHOLD failures within FAILURE_WINDOW_SECONDS of each other
\* (counted since the last success or the last opening), and on no other
\* step.
C2_OpensAtThirdFailure ==
  [][ (_circuit_open_until' # _circuit_open_until)
        <=> /\ \E s \in Sessions : Leaves(s, "except")
            /\ Cardinality({i \in DOMAIN failLog :
                              now - failLog[i] <= FAILURE_WINDOW_SECONDS}) + 1
                 >= FAILURE_THRESHOLD ]_vars

C2_Witness ==
  /\ OpenedNow
  /\ failLog = << >>
  /\ \E s \in Sessions : pc[s] \in {"recheck", "done"} /\ recorded[s] >= 1

\* C3: within one attempt sequence every 429 is followed by a sleep and a
\* retry against the same model until MAX_RETRIES requests have been made;
\* the 429 on the last attempt raises RateLimited, and no model ever
\* receives a 4th request.
C3_RetryOn429 ==
  [][ \A s \in Sessions :
        /\ \A m \in Models : reqs'[s][m] <= MAX_RETRIES
        /\ (Leaves(s, "request") /\ last'[s][Target(s)].status = 429) =>
              IF reqs'[s][Target(s)] < MAX_RETRIES
              THEN pc'[s] = "sleep"
              ELSE /\ pc'[s] = "except"
                   /\ exc'[s] = Exc("RateLimited", stage[s])
                   /\ reqs'[s][Target(s)] = MAX_RETRIES
        /\ Leaves(s, "sleep") =>
              /\ pc'[s] = "request"
              /\ Target(s)' = Target(s)
              /\ reqs'[s] = reqs[s] ]_vars

C3_Witness ==
  \E s \in Sessions :
    /\ pc[s] = "except"
    /\ exc[s].kind = "RateLimited"
    /\ reqs[s][Target(s)] = MAX_RETRIES

\* C4 (as stated): in one attempt sequence, 429 responses followed by a
\* non-429 response on the 3rd attempt make the sequence return that
\* response, whatever non-429 status it carries.
C4_Original ==
  \A s \in Sessions :
    ( /\ pc[s] \in {"success", "except"}
      /\ attempt[s] = MAX_RETRIES - 1
      /\ last[s][Target(s)].kind = "response"
      /\ last[s][Target(s)].status # 429 )
    => pc[s] = "success"

\* C4 (amended): 429 responses followed, on the 3rd attempt, by a response
\* with a status below 400 make the sequence return that response; a status
\* of 400 or more (other than 429) on the 3rd attempt raises UpstreamError.
C4_ThirdAttempt ==
  \A s \in Sessions :
    ( /\ pc[s] \in {"success", "except"}
      /\ attempt[s] = MAX_RETRIES - 1
      /\ last[s][Target(s)].kind = "response"
      /\ last[s][Target(s)].status # 429 )
    => IF last[s][Target(s)].status < 400
       THEN pc[s] = "success"
       ELSE pc[s] = "except" /\ exc[s] = Exc("UpstreamError", stage[s])

C4_Witness ==
  \E s \in Sessions :
    /\ pc[s] = "success"
    /\ attempt[s] = MAX_RETRIES - 1
    /\ reqs[s][Target(s)] = MAX_RETRIES
    /\ last[s][Target(s)].status = 200

\* C5: an error status >= 400 other than 429 ends the attempt sequence at
\* once with UpstreamError, on any attempt: no sleep follows, and a model
\* that has answered so (or whose request raised) gets no further request
\* in that call.
C5_UpstreamErrorNoRetry ==
  [][ \A s \in Sessions :
        /\ ( /\ Leaves(s, "request")
             /\ last'[s][Target(s)].kind = "response"
             /\ last'[s][Target(s)].status >= 400
             /\ last'[s][Target(s)].status # 429 )
           => /\ pc'[s] = "except"
              /\ exc'[s] = Exc("UpstreamError", stage[s])
              /\ slept'[s] = slept[s]
        /\ \A m \in Models :
             reqs'[s][m] > reqs[s][m] =>
               \/ last[s][m] = NoOutcome
               \/ last[s][m].kind = "response" /\ last[s][m].status = 429
    ]_vars

C5_Witness ==
  \E s \in Sessions :
    /\ pc[s] = "except"
    /\ exc[s].kind = "UpstreamError"
    /\ attempt[s] = 1
    /\ last[s][Target(s)].status = 400

\* the primary attempt sequence of the call of s has failed
PrimaryFailed(s) == primaryExc[s] # NoExc

\* C6 (as stated): whenever the primary model differs from the fallback
\* model and the primary attempt sequence fails, the call makes exactly one
\* fallback attempt sequence, in every breaker state.
C6_Original ==
  \A s \in Sessions :
    (pc[s] = "done" /\ model[s] # FALLBACK_MODEL /\ PrimaryFailed(s))
    => fbSeqs[s] = 1 /\ reqs[s][FALLBACK_MODEL] >= 1

\* C6 (amended): whenever the primary model differs from the fallback model
\* and the primary attempt sequence fails, the call makes exactly one
\* fallback attempt sequence against the fallback model, unless the breaker
\* is open at the re-check that follows the recording of the primary
\* failure; then it makes none and fails with ServiceUnavailable.  A
\* fallback sequence never starts while the breaker is open.
C6_OneFallbackUnlessOpen ==
  \A s \in Sessions :
    /\ (pc[s] = "done" /\ model[s] # FALLBACK_MODEL /\ PrimaryFailed(s)) =>
          \/ /\ result[s] = ServiceUnavailable
             /\ now < _circuit_open_until
             /\ fbSeqs[s] = 0
             /\ reqs[s][FALLBACK_MODEL] = 0
          \/ /\ result[s] # ServiceUnavailable
             /\ fbSeqs[s] = 1
             /\ stage[s] = "fallback"
             /\ reqs[s][FALLBACK_MODEL] \in 1..MAX_RETRIES
    /\ (pc[s] = "request" /\ stage[s] = "fallback"
          /\ reqs[s][FALLBACK_MODEL] = 0) =>
          /\ ~(now < _circuit_open_until)
          /\ fbSeqs[s] = 1
          /\ PrimaryFailed(s)

C6_Witness ==
  \E s \in Sessions :
    /\ pc[s] = "done"
    /\ model[s] # FALLBACK_MODEL
    /\ PrimaryFailed(s)
    /\ fbSeqs[s] = 1
    /\ _failure_timestamps # << >>

\* C7: when the primary model is the fallback model and the primary attempt
\* sequence fails, no fallback sequence is made, exactly one failure is
\* recorded and the call fails with the primary sequence's own error.
C7_NoFallbackForFallback ==
  \A s \in Sessions :
    (pc[s] = "done" /\ model[s] = FALLBACK_MODEL /\ PrimaryFailed(s)) =>
      /\ fbSeqs[s] = 0
      /\ stage[s] = "primary"
      /\ TotalReqs(s) <= MAX_RETRIES
      /\ recorded[s] = 1
      /\ result[s] = primaryExc[s]
      /\ result[s].origin = "primary"
      /\ OpenedNow \/ _failure_timestamps[Len(_failure_timestamps)] = now

C7_Witness ==
  \E s \in Sessions :
    /\ pc[s] = "done"
    /\ model[s] = FALLBACK_MODEL
    /\ PrimaryFailed(s)
    /\ ~OpenedNow

\* C8: if the failure recorded for the primary sequence opened the breaker,
\* the re-check before the fallback fails the call with ServiceUnavailable:
\* no request goes to the fallback model and no second failure is recorded.
C8_RecheckFailsFast ==
  [][ \A s \in Sessions :
        (Leaves(s, "recheck") /\ OpenedNow) =>
          /\ pc'[s] = "done"
          /\ result'[s] = ServiceUnavailable
          /\ reqs'[s] = reqs[s]
          /\ reqs[s][FALLBACK_MODEL] = 0
          /\ recorded'[s] = 1
          /\ fbSeqs'[s] = 0
          /\ UNCHANGED breaker ]_vars

C8_Witness ==
  \E s \in Sessions :
    /\ pc[s] = "done"
    /\ ~openAtStart[s]
    /\ result[s] = ServiceUnavailable
    /\ OpenedNow
    /\ recorded[s] = 1

\* C9: when both the primary and the fallback attempt sequence fail, two
\* failures have been recorded in the one shared window when the call
\* fails, and the error raised is the fallback's, not the primary's.
C9_BothFail ==
  \A s \in Sessions :
    (pc[s] = "done" /\ fbSeqs[s] = 1 /\ result[s] # Ok) =>
      /\ recorded[s] = 2
      /\ result[s].origin = "fallback"
      /\ result[s].kind \in {"RateLimited", "UpstreamError", "Transport"}
      /\ OpenedNow \/ _failure_timestamps[Len(_failure_timestamps)] = now

C9_Witness ==
  \E s \in Sessions :
    /\ pc[s] = "done"
    /\ fbSeqs[s] = 1
    /\ result[s].kind = "RateLimited"
    /\ primaryExc[s].kind = "UpstreamError"
    /\ Len(_failure_timestamps) = 2

\* C10: when a call returns after a successful attempt sequence (primary or
\* fallback), the failure window is empty, whatever was recorded before.
C10_SuccessClearsWindow ==
  \A s \in Sessions :
    (pc[s] = "done" /\ result[s] = Ok) => _failure_timestamps = << >>

C10_Witness ==
  \E s \in Sessions :
    /\ pc[s] = "done"
    /\ result[s] = Ok
    /\ stage[s] = "fallback"
    /\ recorded[s] = 1
    /\ ~OpenedNow

\* C20: when a record-failure step completes the window holds fewer than
\* FAILURE_THRESHOLD timestamps; if the window reached the threshold during
\* the step, open-until is that step's now + CIRCUIT_BREAKER_COOLDOWN and
\* the window is empty.
C20_WindowBelowThreshold ==
  [][ \A s \in Sessions :
        Leaves(s, "except") =>
          /\ Len(_failure_timestamps') < FAILURE_THRESHOLD
          /\ (Cardinality({i \in DOMAIN _failure_timestamps :
                  now - _failure_timestamps[i] <= FAILURE_WINDOW_SECONDS}) + 1
                >= FAILURE_THRESHOLD)
             => /\ _circuit_open_until' = now + CIRCUIT_BREAKER_COOLDOWN
                /\ _failure_timestamps' = << >> ]_vars

C20_Witness ==
  \E s \in Sessions :
    /\ pc[s] = "done"
    /\ recorded[s] = 2
    /\ result[s].origin = "fallback"
    /\ OpenedNow

\* --------------------------------------------------- claims on the parser
AllChars == {"a", " ", "\n", ":", "S", "u", "b", "j", "e", "c", "t", "s",
             "U", "B", "J", "E", "C", "T", "H", "l", "o", "W", "r", "d"}
IsString(q) == DOMAIN q = 1..Len(q) /\ \A i \in DOMAIN q : q[i] \in AllChars

\* a text with the spaces at the end of each of its lines removed
RECURSIVE RTrimLines(_)
RTrimLines(q) ==
  IF q = << >> THEN << >>
  ELSE LET r == RTrimLines(Tail(q))
       IN  IF Head(q) = " " /\ (r = << >> \/ Head(r) = "\n")
           THEN r ELSE <<Head(q)>> \o r

\* a body as the parser gives it back: lines right-trimmed, no blank line
\* at its start, no whitespace at its end
NormBody(B) == RStripOf(LStripOf(RTrimLines(B), {"\n"}), {"\n"})

\* position of the first newline of a text, Len + 1 if it has none
FirstNewline(q) ==
  IF \E i \in DOMAIN q : q[i] = "\n"
  THEN CHOOSE i \in DOMAIN q : q[i] = "\n" /\ \A j \in 1..(i - 1) : q[j] # "\n"
  ELSE Len(q) + 1
FirstLineOf(q) == SubSeq(q, 1, FirstNewline(q) - 1)
AfterFirstLine(q) == SubSeq(q, FirstNewline(q) + 1, Len(q))

\* C16 (as stated): parsing "Subject: S\n\nB" returns exactly (S, B), up to
\* whitespace at the leading and trailing edge of B only.
C16_Original ==
  ppc = "parsed" =>
    /\ parsed.raised = "none"
    /\ parsed.subject = subject_in
    /\ Strip(parsed.body) = Strip(body_in)

\* C16 (amended): parsing "Subject: S\n\nB" returns S stripped of its
\* surrounding whitespace, and B with every line right-trimmed, its leading
\* blank lines and its trailing whitespace removed; so exactly (S, B) when S
\* has no surrounding whitespace and B no blank first line and no line
\* ending in whitespace.
C16_RoundTrip ==
  ppc = "parsed" =>
    /\ parsed = ParseResult(Strip(subject_in), NormBody(body_in))
    /\ (Strip(subject_in) = subject_in /\ NormBody(body_in) = body_in)
         => parsed = ParseResult(subject_in, body_in)

C16_Witness ==
  /\ ppc = "parsed"
  /\ subject_in = <<"a", ":">>
  /\ body_in = <<"a", " ", "\n", "a">>
  /\ parsed = ParseResult(<<"a", ":">>, <<"a", "\n", "a">>)

\* C17: for every text the parser raises nothing and returns two strings;
\* for an empty or whitespace-only text both are empty.
C17_ParserTotal ==
  ppc = "parsed" =>
    /\ parsed.raised = "none"
    /\ IsString(parsed.subject)
    /\ IsString(parsed.body)
    /\ (\A i \in DOMAIN model_output : model_output[i] \in Whitespace)
         => parsed = ParseResult(<< >>, << >>)

C17_Witness ==
  /\ ppc = "parsed"
  /\ model_output = <<" ", "\n", " ">>
  /\ parsed = ParseResult(<< >>, << >>)

\* C18: if the first line of the trimmed text starts with "subject:" in any
\* letter case, the subject is the stripped text after the first colon;
\* otherwise it is the (stripped) first non-blank line.  The body is made of
\* all the lines after that line.  "Hello\nWorld" gives ("Hello", "World").
C18_Grammar ==
  ppc = "parsed" =>
    LET T == Strip(model_output)
        first == FirstLineOf(T)
    IN  /\ parsed.raised = "none"
        /\ T # << >> =>
             /\ parsed.body = NormBody(AfterFirstLine(T))
             /\ IF /\ Len(first) >= 8
                   /\ \A i \in 1..8 :
                        LowerChar(first[i]) = Str_subject_colon[i]
                THEN parsed.subject = Strip(SubSeq(first, 9, Len(first)))
                ELSE first # << >> /\ parsed.subject = Strip(first)
        /\ model_output = Str_Hello_World =>
             parsed = ParseResult(<<"H", "e", "l", "l", "o">>,
                                  <<"W", "o", "r", "l", "d">>)

C18_Witness ==
  /\ ppc = "parsed"
  /\ model_output = Str_SUBJECT_colon \o <<" ", "a", "\n", "a">>
  /\ parsed = ParseResult(<<"a">>, <<"a">>)

\* ------------------------------------------ claims on the optional fields
\* the prompt to which no optional field contributes
PromptWithout == PromptHead \o PromptTail
IsBlankValue(v) == v = None \/ \A i \in DOMAIN v[1] : v[1][i] \in Whitespace

\* C19 (as stated): the sanitized value is absent, or a non-empty string of
\* at most 200 characters without surrounding whitespace; an absent, empty
\* or whitespace-only value becomes absent and adds no line to the prompt;
\* a 250-character value is cut to its first 200 characters.
C19_Original ==
  spc = "built" =>
    /\ sanitized # None =>
         /\ sanitized[1] # << >>
         /\ Len(sanitized[1]) <= MAX_FIELD_LEN
         /\ Strip(sanitized[1]) = sanitized[1]
    /\ IsBlankValue(value) => sanitized = None /\ prompt = PromptWithout
    /\ (value # None /\ Len(value[1]) = 250) =>
         sanitized = Some(SubSeq(value[1], 1, MAX_FIELD_LEN))

\* C19 (amended): the sanitized value is absent, or the first 200
\* characters of the stripped value: non-empty, at most 200 characters, no
\* leading whitespace (whitespace may end it where the cut fell); an absent,
\* empty or whitespace-only value becomes absent and adds no line to the
\* prompt, any other value adds its line; a 250-character value without
\* surrounding whitespace is cut to its first 200 characters.
C19_Sanitized ==
  spc = "built" =>
    /\ sanitized # None =>
         /\ sanitized[1] # << >>
         /\ Len(sanitized[1]) <= MAX_FIELD_LEN
         /\ sanitized[1][1] \notin Whitespace
         /\ \E k \in DOMAIN value[1] :
              /\ \A i \in 1..(k - 1) : value[1][i] \in Whitespace
              /\ \A i \in DOMAIN sanitized[1] :
                   sanitized[1][i] = value[1][k + i - 1]
              /\ \/ Len(sanitized[1]) = MAX_FIELD_LEN
                 \/ \A i \in (k + Len(sanitized[1]))..Len(value[1]) :
                      value[1][i] \in Whitespace
    /\ IsBlankValue(value) <=> sanitized = None
    /\ sanitized = None <=> prompt = PromptWithout
    /\ sanitized # None =>
         /\ Len(prompt) > Len(PromptWithout)
         /\ \E i \in DOMAIN prompt : prompt[i].text = sanitized[1]
    /\ (value # None /\ Len(value[1]) = 250
          /\ Strip(value[1]) = value[1]) =>
         sanitized = Some(SubSeq(value[1], 1, MAX_FIELD_LEN))

C19_Witness ==
  /\ spc = "built"
  /\ field = "one_liner"
  /\ value = Some(Fill("a", 199) \o <<" ">> \o Fill("b", 50))
  /\ sanitized = Some(Fill("a", 199) \o <<" ">>)
  /\ Len(prompt) = Len(PromptWithout) + 3

\* ---------------------------------------------------------- generate_email
\* session s takes the step in which generate_email ends its two checks
Checked(s) == gpc[s] = "idle" /\ gpc'[s] # "idle"
\* the body has the shape {choices: [{message: {content: string}}]}
WellShaped(b) ==
  /\ b.json
  /\ b.data.t = "dict" /\ "choices" \in DOMAIN b.data.v
  /\ LET ch == b.data.v["choices"]
     IN  /\ ch.t = "list" /\ ch.v # << >>
         /\ ch.v[1].t = "dict" /\ "message" \in DOMAIN ch.v[1].v
         /\ LET msg == ch.v[1].v["message"]
            IN  /\ msg.t = "dict" /\ "content" \in DOMAIN msg.v
                /\ msg.v["content"].t = "str"

\* C13: with no credential configured, every call of generate_email, an
\* empty sender name included, ends with ConfigurationError; no message is
\* built, no request is issued, the invoker is not entered, and the failure
\* window and the open-until timestamp keep their values.
C13_CredentialFirst ==
  [][\A s \in Sessions :
       (Checked(s) /\ ~Truthy(MISTRAL_API_KEY))
         => /\ gpc'[s] = "finished"
            /\ gresult'[s] = GenRaised("ConfigurationError", JNull)
            /\ ~built'[s]
            /\ pc'[s] = "idle" /\ reqs'[s] = NoReqs
            /\ UNCHANGED breaker]_vars
C13_Witness ==
  \E s \in Sessions :
    /\ ~Truthy(MISTRAL_API_KEY)
    /\ sender_name[s] = Some(<< >>)
    /\ gresult[s].kind = "ConfigurationError"

\* C14: with a credential configured, a call of generate_email whose
\* sender name is absent or empty ends with InvalidInput; no request is
\* issued, the invoker is not entered, and the failure window and the
\* open-until timestamp keep their values, the breaker being open or not.
C14_SenderNameRequired ==
  [][\A s \in Sessions :
       (Checked(s) /\ Truthy(MISTRAL_API_KEY) /\ ~Truthy(sender_name'[s]))
         => /\ gpc'[s] = "finished"
            /\ gresult'[s] = GenRaised("InvalidInput", JNull)
            /\ pc'[s] = "idle" /\ reqs'[s] = NoReqs
            /\ UNCHANGED breaker]_vars
C14_Witness ==
  \E s \in Sessions :
    /\ gresult[s].kind = "InvalidInput"
    /\ sender_name[s] = Some(<< >>)
    /\ CircuitOpen(now, _circuit_open_until)
    /\ _circuit_open_until > 0

\* C15: when the invoker returned a success response whose body is not of
\* the shape {choices: [{message: {content: string}}]}, generate_email
\* raises UpstreamError carrying the decoded payload.
C15_MalformedIsUpstreamError ==
  \A s \in Sessions :
    (gpc[s] = "finished" /\ pc[s] = "done" /\ result[s] = Ok
       /\ ~WellShaped(resp_body[s]))
      => gresult[s] = GenRaised("UpstreamError", resp_body[s].data)

\* ----------------------------------------------------- interleaved calls
\* session s is between the first and the last statement of
\* _record_failure or _record_success
Recording(s) ==
  pc[s] \in {"rf_append", "rf_while", "rf_head", "rf_pop", "rf_len",
             "rf_open", "rf_clear", "rs_clear"}
\* session s takes the last step of _record_success
SuccessRecorded(s) ==
  pc[s] \in {"success", "rs_clear"} /\ pc'[s] = "done" /\ result'[s] = Ok

\* C11: right after a call's success is recorded the breaker is not open
\* (a call starting then passes the circuit check), however the calls of
\* the sessions interleave.
C11_SuccessClosesBreaker ==
  [][\A s \in Sessions :
       SuccessRecorded(s) => ~CircuitOpen(now', _circuit_open_until')]_vars

\* C12: no interleaving of two calls lets one of them read or pop the
\* oldest entry of the window after the other emptied it (the IndexError),
\* or leaves the window with FAILURE_THRESHOLD entries or more once no
\* call is recording.
C12_WindowNeverCorrupted ==
  /\ \A s \in Sessions : result[s].kind # "IndexError"
  /\ (\A s \in Sessions : ~Recording(s))
       => ~ThresholdReached(_failure_timestamps)

\* ------------------------------------------------- breaker, further claims
\* the entries of w that are at most FAILURE_WINDOW_SECONDS old at time t
Recent(w, t) ==
  LET fresh(e) == t - e <= FAILURE_WINDOW_SECONDS IN SelectSeq(w, fresh)

\* C21: after every record-failure step at its time now, the window holds
\* no timestamp older than FAILURE_WINDOW_SECONDS relative to that now; a
\* timestamp exactly FAILURE_WINDOW_SECONDS old is kept and counts towards
\* the threshold: the window is the recent entries, or, when these are
\* FAILURE_THRESHOLD or more, the breaker is opened and the window cleared.
C21_WindowPruned ==
  [][\A s \in Sessions :
       Leaves(s, "except")
         => LET kept == Recent(Append(_failure_timestamps, now), now)
            IN  /\ \A i \in DOMAIN _failure_timestamps' :
                     now' - _failure_timestamps'[i] <= FAILURE_WINDOW_SECONDS
                /\ IF Len(kept) >= FAILURE_THRESHOLD
                   THEN OpenedNow'
                   ELSE /\ _failure_timestamps' = kept
                        /\ UNCHANGED _circuit_open_until]_vars
C21_Witness ==
  /\ Len(_failure_timestamps) = 2
  /\ _failure_timestamps[2] = now
  /\ now - _failure_timestamps[1] = FAILURE_WINDOW_SECONDS
  /\ \E s \in Sessions : recorded[s] > 0 /\ pc[s] \in {"recheck", "done"}

\* C22: one call sends at most MAX_RETRIES requests to either model, at
\* most 2 * MAX_RETRIES in all, and the attempt number of the fallback
\* sequence counts the fallback's requests only, so a primary sequence
\* that used all its attempts leaves the fallback its full budget.
C22_AttemptsPerModel ==
  \A s \in Sessions :
    /\ \A m \in Models : reqs[s][m] <= MAX_RETRIES
    /\ TotalReqs(s) <= 2 * MAX_RETRIES
    /\ (stage[s] = "fallback" /\ pc[s] = "request")
         => attempt[s] = reqs[s][FALLBACK_MODEL]
C22_Witness ==
  \E s \in Sessions :
    /\ reqs[s][MISTRAL_MODEL] = MAX_RETRIES
    /\ reqs[s][FALLBACK_MODEL] = MAX_RETRIES

\* both models have answered 429 to every one of their MAX_RETRIES attempts
AllRateLimited(s) ==
  /\ pc[s] = "done"
  /\ \A m \in Models :
       /\ reqs[s][m] = MAX_RETRIES
       /\ last[s][m] = [kind |-> "response", status |-> 429]

\* C23 as stated: the worst-case call has slept 2 x 3 x 5 s = 30 s.
C23_Original ==
  \A s \in Sessions :
    AllRateLimited(s) => slept[s] = 2 * MAX_RETRIES * RETRY_DELAY

\* C23: a call sleeps RETRY_DELAY once per retry, never after the last
\* attempt of a model: at most 2 x 2 x 5 s = 20 s, and exactly that when
\* both models answered 429 on every attempt, after which the call fails
\* with RateLimited.
C23_SleepPerRetry ==
  \A s \in Sessions :
    /\ slept[s] <= 2 * (MAX_RETRIES - 1) * RETRY_DELAY
    /\ AllRateLimited(s)
         => /\ slept[s] = 2 * (MAX_RETRIES - 1) * RETRY_DELAY
            /\ result[s] = Exc("RateLimited", "fallback")
C23_Witness == \E s \in Sessions : AllRateLimited(s)

\* the request of session s, in this step, ends in a transport failure
TransportFailure(s) ==
  /\ Leaves(s, "request")
  /\ last'[s][Target(s)].kind = "exception"
\* the except block of session s handles, in this step, an exception of
\* kind k
Handles(s, k) == Leaves(s, "except") /\ exc[s].kind = k

\* C24: a transport failure ends the attempt sequence without retry; the
\* except block records it as one failure, by the rule of every failure,
\* and goes on to the fallback exactly when it does so after an upstream
\* HTTP error: the primary sequence failed and the model is not the
\* fallback model.
C24_TransportLikeUpstream ==
  [][\A s \in Sessions :
       /\ TransportFailure(s)
            => /\ pc'[s] = "except"
               /\ exc'[s] = Exc("Transport", stage[s])
               /\ UNCHANGED <<breaker, slept, recorded>>
       /\ \A k \in {"Transport", "UpstreamError"} :
            Handles(s, k)
              => /\ recorded'[s] = recorded[s] + 1
                 /\ <<_failure_timestamps', _circuit_open_until'>>
                      = RecordFailure(_failure_timestamps,
                                      _circuit_open_until, now)
                 /\ IF stage[s] = "primary" /\ model[s] # FALLBACK_MODEL
                    THEN pc'[s] = "recheck"
                    ELSE pc'[s] = "done" /\ result'[s].kind = k]_vars
C24_Witness ==
  \E s \in Sessions :
    /\ primaryExc[s] = Exc("Transport", "primary")
    /\ reqs[s][MISTRAL_MODEL] = 1
    /\ recorded[s] = 2
    /\ result[s] = Exc("Transport", "fallback")

\* session s is rejected, in this step, by a circuit check
Rejected(s) ==
  /\ pc[s] \in {"check", "recheck"}
  /\ pc'[s] \notin {pc[s], "request"}

\* C25: a call rejected by the circuit check, at entry or before the
\* fallback, is rejected because the breaker is open, and the rejection
\* leaves the failure window and the open-until timestamp as they are; a
\* rejected call changes neither of them up to its return.
C25_RejectionNotCounted ==
  [][\A s \in Sessions :
       /\ Rejected(s)
            => /\ now < _circuit_open_until
               /\ pc'[s] = "done" /\ result'[s] = ServiceUnavailable
               /\ UNCHANGED <<breaker, recorded, reqs>>
       /\ (pc[s] = "done" /\ result[s] = ServiceUnavailable)
            => UNCHANGED breaker]_vars
C25_Witness ==
  \E s \in Sessions :
    /\ pc[s] = "done" /\ result[s] = ServiceUnavailable
    /\ recorded[s] = 0
    /\ now > 0 /\ _circuit_open_until = CIRCUIT_BREAKER_COOLDOWN

\* C26: a call whose circuit check at entry is made at a time now >=
\* open-until, the boundary included, passes it and is at its primary
\* request; nothing but the passing of time is needed after the breaker
\* opened.
C26_AdmitsAfterCooldown ==
  [][\A s \in Sessions :
       (Leaves(s, "check") /\ now >= _circuit_open_until)
         => /\ pc'[s] = "request"
            /\ stage'[s] = "primary"
            /\ result'[s] = NoExc]_vars
C26_Witness ==
  \E s \in Sessions :
    /\ _circuit_open_until >= CIRCUIT_BREAKER_COOLDOWN
    /\ now = _circuit_open_until
    /\ pc[s] = "success"
    /\ reqs[s][model[s]] = 1

\* ------------------------------------------ interleaved calls, requests
\* C27: no request is sent at a moment when the breaker is open, however
\* the calls interleave.
C27_NoRequestWhileOpen ==
  [][\A s \in Sessions :
       Leaves(s, "request") => ~(now < _circuit_open_until)]_vars

\* ------------------------------------------ generate_email, bad bodies
\* generate_email of session s has raised for the body of a success
\* response
MalformedRaised(s) ==
  /\ gpc[s] = "finished" /\ pc[s] = "done" /\ result[s] = Ok
  /\ gresult[s].kind # "ok"
\* session s takes the step that handles the invoker's result
Finishing(s) == gpc[s] = "call" /\ gpc'[s] = "finished"

\* C28: the handling of the response body changes nothing of the breaker,
\* records no failure and sends no request; when generate_email raises
\* for a malformed body of a success response, the failure window is
\* empty and the breaker is not open, and no fallback was started because
\* of the body: a fallback sequence ran only if the primary had failed.
C28_MalformedNotAFailure ==
  [][\A s \in Sessions :
       /\ Finishing(s) => UNCHANGED <<breaker, recorded, reqs, fbSeqs>>
       /\ (Finishing(s) /\ MalformedRaised(s)')
            => /\ _failure_timestamps' = << >>
               /\ ~(now' < _circuit_open_until')
               /\ fbSeqs'[s] = recorded'[s]
               /\ recorded'[s] = 0 <=> primaryExc'[s] = NoExc]_vars
C28_Witness ==
  \E s \in Sessions :
    /\ MalformedRaised(s)
    /\ gresult[s].kind = "UpstreamError"
    /\ failLog = << >> /\ recorded[s] = 0
    /\ now = 0 /\ reqs[s][MISTRAL_MODEL] = 1

\* ---------------------------------------------------------------- the page
\* the form passes every check of the click handler
ValidForm(f) ==
  /\ is_valid_email(Strip(f.sender_email))
  /\ is_valid_email(Strip(f.receiver_email))
  /\ f.sender_name # << >> /\ f.company_name # << >>
  /\ f.prospect_role # << >>

\* C29: after a click on Generate with a valid form, when generate_email
\* gives a parsed email, the success branch is taken and generated_subject
\* and generated_body are that email's subject and body, stripped.
C29_SuccessBranch ==
  (generate_clicked /\ ValidForm(form) /\ returned.kind = "ok")
    => /\ shown = "success"
       /\ session_state = Stored(returned)

====
